---- MODULE Spec2Model ----
(***************************************************************************)
(* Cascade deletion and snapshot backup/restore of the LNRS database       *)
(* application (models/*.py, config/database.py, config/backup.py).        *)
(*                                                                         *)
(* The store is a set of tables; a table is a set of rows; a row is a      *)
(* record of its key columns.  Every handler is one action: the program is *)
(* synchronous and single-writer, so a handler runs to its return or to    *)
(* its raise before the next one starts.  The statements a handler issued  *)
(* are kept in last.trace, the store it started from in last.pre.          *)
(***************************************************************************)
EXTENDS Integers, Sequences, FiniteSets, TLC

VARIABLES db, eagerFK, enabled, now, journal, files, connOpen, taken, last,
          calls, backups

vars == <<db, eagerFK, enabled, now, journal, files, connOpen, taken, last,
          calls, backups>>

(***************************************************************************)
(* Bounds                                                                  *)
(***************************************************************************)
\* ids a caller may pass; only measures have a row with id 2
MaxId == 2
\* the clock of datetime.now(), in whole seconds
MaxTime == 1
\* journal records the model lets accumulate
MaxSnapshots == 2
\* model calls (cascade, link delete, grouped insert) in one run
MaxCalls == 2
\* BackupManager calls in one run
MaxBackupCalls == 4
\* mutations of the store between BackupManager calls in such runs
MaxMutations == 1
\* BackupManager calls in one run with failures
MaxFaultCalls == 3
\* BackupManager calls in one run of the backup page
MaxRetentionCalls == 3
\* keep_count values a caller passes to cleanup_old_snapshots
MaxKeep == 1
\* limit values a caller passes to list_snapshots (0: no limit)
MaxLimit == 1
\* keep_count values of runs in which a cleanup keeps several records
MaxJournalKeep == 2
\* RelationshipModel calls in one run
MaxLinkCalls == 3
\* update_with_relationships calls in one run
MaxUpdateCalls == 1
\* calls of one delete_with_cascade after the first, in runs that repeat it
MaxReruns == 2

Ids == 1..MaxId

(***************************************************************************)
(* Schema                                                                  *)
(***************************************************************************)
EntityTypes == {"measure", "area", "priority", "species", "habitat", "grant"}

EntityTable(et) == IF et = "grant" THEN "grant_table" ELSE et

IdColumn(et) == et \o "_id"

Tables ==
    { "measure", "area", "priority", "species", "habitat", "grant_table",
      "measure_has_type", "measure_has_stakeholder", "measure_has_benefits",
      "measure_has_species", "measure_area_priority",
      "measure_area_priority_grant", "species_area_priority",
      "area_funding_schemes", "habitat_creation_area",
      "habitat_management_area" }

\* the key columns of each table
Columns(t) ==
    CASE t = "measure" -> {"measure_id"}
      [] t = "area" -> {"area_id"}
      [] t = "priority" -> {"priority_id"}
      [] t = "species" -> {"species_id"}
      [] t = "habitat" -> {"habitat_id"}
      [] t = "grant_table" -> {"grant_id"}
      [] t = "measure_has_type" -> {"measure_id", "measure_type_id"}
      [] t = "measure_has_stakeholder" -> {"measure_id", "stakeholder_id"}
      [] t = "measure_has_benefits" -> {"measure_id", "benefit_id"}
      [] t = "measure_has_species" -> {"measure_id", "species_id"}
      [] t = "measure_area_priority" ->
            {"measure_id", "area_id", "priority_id"}
      [] t = "measure_area_priority_grant" ->
            {"measure_id", "area_id", "priority_id", "grant_id"}
      [] t = "species_area_priority" ->
            {"species_id", "area_id", "priority_id"}
      [] t = "area_funding_schemes" -> {"id", "area_id"}
      [] t = "habitat_creation_area" -> {"habitat_id", "area_id"}
      [] t = "habitat_management_area" -> {"habitat_id", "area_id"}

\* child table, parent table, and the columns of the child that must match a
\* row of the parent
FK(c, p, cols) == [child |-> c, parent |-> p, cols |-> cols]

ForeignKeys ==
    { FK("measure_has_type", "measure", {"measure_id"}),
      FK("measure_has_stakeholder", "measure", {"measure_id"}),
      FK("measure_has_benefits", "measure", {"measure_id"}),
      FK("measure_has_species", "measure", {"measure_id"}),
      FK("measure_has_species", "species", {"species_id"}),
      FK("measure_area_priority", "measure", {"measure_id"}),
      FK("measure_area_priority", "area", {"area_id"}),
      FK("measure_area_priority", "priority", {"priority_id"}),
      FK("measure_area_priority_grant", "measure_area_priority",
         {"measure_id", "area_id", "priority_id"}),
      FK("measure_area_priority_grant", "grant_table", {"grant_id"}),
      FK("species_area_priority", "species", {"species_id"}),
      FK("species_area_priority", "area", {"area_id"}),
      FK("species_area_priority", "priority", {"priority_id"}),
      FK("area_funding_schemes", "area", {"area_id"}),
      FK("habitat_creation_area", "habitat", {"habitat_id"}),
      FK("habitat_creation_area", "area", {"area_id"}),
      FK("habitat_management_area", "habitat", {"habitat_id"}),
      FK("habitat_management_area", "area", {"area_id"}) }

(***************************************************************************)
(* The database the application starts on                                  *)
(***************************************************************************)
\* measure 1 carries every kind of relation row, among them a grant on its
\* area-priority link; measure 2 has one ungranted link and nothing else
InitialDb ==
    [ t \in Tables |->
        CASE t = "measure" -> {[measure_id |-> 1], [measure_id |-> 2]}
          [] t = "area" -> {[area_id |-> 1]}
          [] t = "priority" -> {[priority_id |-> 1]}
          [] t = "species" -> {[species_id |-> 1]}
          [] t = "habitat" -> {[habitat_id |-> 1]}
          [] t = "grant_table" -> {[grant_id |-> 1]}
          [] t = "measure_has_type" ->
                {[measure_id |-> 1, measure_type_id |-> 1]}
          [] t = "measure_has_stakeholder" ->
                {[measure_id |-> 1, stakeholder_id |-> 1]}
          [] t = "measure_has_benefits" ->
                {[measure_id |-> 1, benefit_id |-> 1]}
          [] t = "measure_has_species" ->
                {[measure_id |-> 1, species_id |-> 1]}
          [] t = "measure_area_priority" ->
                {[measure_id |-> 1, area_id |-> 1, priority_id |-> 1],
                 [measure_id |-> 2, area_id |-> 1, priority_id |-> 1]}
          [] t = "measure_area_priority_grant" ->
                {[measure_id |-> 1, area_id |-> 1, priority_id |-> 1,
                  grant_id |-> 1]}
          [] t = "species_area_priority" ->
                {[species_id |-> 1, area_id |-> 1, priority_id |-> 1]}
          [] t = "area_funding_schemes" -> {[id |-> 1, area_id |-> 1]}
          [] t = "habitat_creation_area" ->
                {[habitat_id |-> 1, area_id |-> 1]}
          [] t = "habitat_management_area" ->
                {[habitat_id |-> 1, area_id |-> 1]} ]

(***************************************************************************)
(* Statements and the store's execution of them                            *)
(***************************************************************************)
\* DELETE FROM table WHERE c1 = v1 AND ...: row holds the columns compared
Delete(t, w) == [kind |-> "DELETE", table |-> t, row |-> w]

\* UPDATE table SET ... WHERE c1 = v1: row holds the columns compared
Update(t, w) == [kind |-> "UPDATE", table |-> t, row |-> w]

\* INSERT INTO table (columns) VALUES (...)
Insert(t, r) == [kind |-> "INSERT", table |-> t, row |-> r]

Matching(d, s) ==
    {r \in d[s.table] : \A c \in DOMAIN s.row : r[c] = s.row[c]}

\* the child rows the foreign-key check of a DELETE looks at: the rows in the
\* table now and, when the store checks over-eagerly inside a transaction,
\* the rows that were there when the transaction began
Referencing(d, base, row, fk) ==
    {c \in d[fk.child] \cup base[fk.child] : \A k \in fk.cols : c[k] = row[k]}

\* a DELETE of a row that a child row still references is rejected
DeleteViolatesFK(d, base, s) ==
    \E row \in Matching(d, s) :
        \E fk \in ForeignKeys :
            fk.parent = s.table /\ Referencing(d, base, row, fk) # {}

\* (mutation) the store does not look for the parent rows of an INSERT
InsertViolatesKeyOnly(d, s) == s.row \in d[s.table]

\* an INSERT is rejected when the row is there already or names a parent row
\* that is not
InsertViolates(d, s) ==
    \/ s.row \in d[s.table]
    \/ \E fk \in ForeignKeys :
          /\ fk.child = s.table
          /\ ~\E p \in d[fk.parent] : \A k \in fk.cols : p[k] = s.row[k]

\* an UPDATE sets columns that are no key, so the store has nothing to
\* reject and the rows of the model stay as they are
Violates(d, base, s) ==
    IF s.kind = "DELETE" THEN DeleteViolatesFK(d, base, s)
    ELSE IF s.kind = "UPDATE" THEN FALSE
    ELSE InsertViolates(d, s)

Apply(d, s) ==
    IF s.kind = "DELETE" THEN [d EXCEPT ![s.table] = @ \ Matching(d, s)]
    ELSE IF s.kind = "UPDATE" THEN d
    ELSE [d EXCEPT ![s.table] = @ \cup {s.row}]

\* run statements k..Len(stmts) on d.  Statement f fails for a reason outside
\* the store's rules (f = 0: none does); a statement the store rejects fails
\* too.  begin is the store at BEGIN and over says whether the foreign-key
\* check still sees the child rows of begin.  done = how many statements took
\* effect, failed = the index of the one that raised (0: none).
RECURSIVE RunFrom(_, _, _, _, _, _)
RunFrom(d, begin, over, stmts, k, f) ==
    IF k > Len(stmts) THEN [db |-> d, done |-> k - 1, failed |-> 0]
    ELSE IF k = f \/ Violates(d, IF over THEN begin ELSE d, stmts[k])
         THEN [db |-> d, done |-> k - 1, failed |-> k]
         ELSE RunFrom(Apply(d, stmts[k]), begin, over, stmts, k + 1, f)

Event(ev, t, ok) == [ev |-> ev, table |-> t, ok |-> ok]

\* the events of statements 1..n, the failed one marked
StatementEvents(stmts, n, failed) ==
    [k \in 1..n |-> Event(stmts[k].kind, stmts[k].table, k # failed)]

Attempted(stmts, r) == IF r.failed = 0 THEN r.done ELSE
                       IF r.failed > Len(stmts) THEN Len(stmts) ELSE r.failed

\* (mutation) the steps wrapped in one transaction: a failure undoes them all
RunSequentialRolledBack(d, stmts, f) ==
    LET r == RunFrom(d, d, FALSE, stmts, 1, f)
    IN  [db |-> IF r.failed = 0 THEN r.db ELSE d,
         raised |-> IF r.failed = 0 THEN "none" ELSE "duckdb.Error",
         failed |-> r.failed,
         trace |-> StatementEvents(stmts, Attempted(stmts, r), r.failed)]

\* (mutation) a first DELETE that matches no row raises
RunSequentialStrict(d, stmts, f) ==
    LET g == IF f = 0 /\ Len(stmts) > 0 /\ Matching(d, stmts[1]) = {}
             THEN 1 ELSE f
        r == RunFrom(d, d, FALSE, stmts, 1, g)
    IN  [db |-> r.db,
         raised |-> IF r.failed = 0 THEN "none" ELSE "duckdb.Error",
         failed |-> r.failed,
         trace |-> StatementEvents(stmts, Attempted(stmts, r), r.failed)]

\* conn.execute called once per statement on the autocommitting connection,
\* inside one try block that re-raises the store's error
RunSequential(d, stmts, f) ==
    LET r == RunFrom(d, d, FALSE, stmts, 1, f)
    IN  [db |-> r.db,
         raised |-> IF r.failed = 0 THEN "none" ELSE "duckdb.Error",
         failed |-> r.failed,
         trace |-> StatementEvents(stmts, Attempted(stmts, r), r.failed)]

\* (mutation) the rollback is missing: what ran before the failure stays
ExecuteTransactionNoRollback(d, eager, stmts, f) ==
    LET r == RunFrom(d, d, eager, stmts, 1, f)
        bad == IF r.failed # 0 THEN r.failed
               ELSE IF f = Len(stmts) + 1 THEN f ELSE 0
    IN  [db |-> r.db,
         raised |-> IF bad = 0 THEN "none" ELSE "duckdb.Error",
         failed |-> bad,
         trace |-> <<Event("BEGIN", "", TRUE)>>
                   \o StatementEvents(stmts, Attempted(stmts, r), r.failed)
                   \o <<Event("COMMIT", "", bad = 0)>>]

\* DatabaseConnection.execute_transaction: BEGIN, the statements, COMMIT; a
\* store error rolls back and is raised again.  f = Len(stmts) + 1 is COMMIT
\* failing.
ExecuteTransaction(d, eager, stmts, f) ==
    LET r == RunFrom(d, d, eager, stmts, 1, f)
        bad == IF r.failed # 0 THEN r.failed
               ELSE IF f = Len(stmts) + 1 THEN f ELSE 0
    IN  [db |-> IF bad = 0 THEN r.db ELSE d,
         raised |-> IF bad = 0 THEN "none" ELSE "duckdb.Error",
         failed |-> bad,
         trace |-> <<Event("BEGIN", "", TRUE)>>
                   \o StatementEvents(stmts, Attempted(stmts, r), r.failed)
                   \o (IF bad = 0 THEN <<Event("COMMIT", "", TRUE)>>
                       ELSE IF r.failed = 0
                            THEN <<Event("COMMIT", "", FALSE),
                                   Event("ROLLBACK", "", TRUE)>>
                            ELSE <<Event("ROLLBACK", "", TRUE)>>)]

\* the exceptions a conn.execute inside execute_transaction may raise: a
\* store error, or one that is not a duckdb.Error and so passes the
\* except clause
Kinds == {"duckdb.Error", "other"}

\* (mutation) the handler catches every exception
ExecuteTransactionOnCatchingAll(d, eager, stmts, f, kind, inTx) ==
    LET t == ExecuteTransaction(d, eager, stmts, f)
    IN  IF inTx
        THEN [db |-> d, raised |-> "duckdb.Error", failed |-> 0,
              trace |-> <<Event("BEGIN", "", FALSE)>>, open |-> TRUE,
              within |-> TRUE]
        ELSE [db |-> t.db, raised |-> t.raised, failed |-> t.failed,
              trace |-> t.trace, open |-> FALSE, within |-> FALSE]

\* DatabaseConnection.execute_transaction on the shared connection, with
\* the connection's transaction state.  inTx: a transaction is open when
\* the call starts, and conn.begin(), outside the try, raises.  A store
\* error is handled as in ExecuteTransaction; any other exception leaves
\* the handler without rollback: the transaction stays open and holds what
\* the statements before the failing one did.
ExecuteTransactionOn(d, eager, stmts, f, kind, inTx) ==
    LET r == RunFrom(d, d, eager, stmts, 1, f)
        t == ExecuteTransaction(d, eager, stmts, f)
    IN  IF inTx
        THEN [db |-> d, raised |-> "duckdb.Error", failed |-> 0,
              trace |-> <<Event("BEGIN", "", FALSE)>>, open |-> TRUE,
              within |-> TRUE]
        ELSE IF kind = "other" /\ r.failed # 0 /\ r.failed = f
        THEN [db |-> r.db, raised |-> "other", failed |-> r.failed,
              trace |-> <<Event("BEGIN", "", TRUE)>>
                        \o StatementEvents(stmts, Attempted(stmts, r),
                                           r.failed),
              open |-> TRUE, within |-> FALSE]
        ELSE [db |-> t.db, raised |-> t.raised, failed |-> t.failed,
              trace |-> t.trace, open |-> FALSE, within |-> FALSE]

(***************************************************************************)
(* delete_with_cascade of the six models                                   *)
(***************************************************************************)
\* (mutation) the measure row itself is never deleted
MeasureStatementsKeepRow(id) ==
    << Delete("measure_has_type", [measure_id |-> id]),
       Delete("measure_has_stakeholder", [measure_id |-> id]),
       Delete("measure_area_priority_grant", [measure_id |-> id]),
       Delete("measure_area_priority", [measure_id |-> id]),
       Delete("measure_has_benefits", [measure_id |-> id]),
       Delete("measure_has_species", [measure_id |-> id]) >>

\* (mutation) the link rows are deleted without the WHERE clause
MeasureStatementsEveryLink(id) ==
    << Delete("measure_has_type", [measure_id |-> id]),
       Delete("measure_has_stakeholder", [measure_id |-> id]),
       Delete("measure_area_priority_grant", [measure_id |-> id]),
       Delete("measure_area_priority", <<>>),
       Delete("measure_has_benefits", [measure_id |-> id]),
       Delete("measure_has_species", [measure_id |-> id]),
       Delete("measure", [measure_id |-> id]) >>

MeasureStatements(id) ==
    << Delete("measure_has_type", [measure_id |-> id]),
       Delete("measure_has_stakeholder", [measure_id |-> id]),
       Delete("measure_area_priority_grant", [measure_id |-> id]),
       Delete("measure_area_priority", [measure_id |-> id]),
       Delete("measure_has_benefits", [measure_id |-> id]),
       Delete("measure_has_species", [measure_id |-> id]),
       Delete("measure", [measure_id |-> id]) >>

AreaStatements(id) ==
    << Delete("measure_area_priority_grant", [area_id |-> id]),
       Delete("measure_area_priority", [area_id |-> id]),
       Delete("species_area_priority", [area_id |-> id]),
       Delete("area_funding_schemes", [area_id |-> id]),
       Delete("habitat_creation_area", [area_id |-> id]),
       Delete("habitat_management_area", [area_id |-> id]),
       Delete("area", [area_id |-> id]) >>

\* (mutation) the links are deleted before the grants that reference them
PriorityStatementsLinkFirst(id) ==
    << Delete("measure_area_priority", [priority_id |-> id]),
       Delete("measure_area_priority_grant", [priority_id |-> id]),
       Delete("species_area_priority", [priority_id |-> id]),
       Delete("priority", [priority_id |-> id]) >>

PriorityStatements(id) ==
    << Delete("measure_area_priority_grant", [priority_id |-> id]),
       Delete("measure_area_priority", [priority_id |-> id]),
       Delete("species_area_priority", [priority_id |-> id]),
       Delete("priority", [priority_id |-> id]) >>

SpeciesStatements(id) ==
    << Delete("species_area_priority", [species_id |-> id]),
       Delete("measure_has_species", [species_id |-> id]),
       Delete("species", [species_id |-> id]) >>

HabitatStatements(id) ==
    << Delete("habitat_creation_area", [habitat_id |-> id]),
       Delete("habitat_management_area", [habitat_id |-> id]),
       Delete("habitat", [habitat_id |-> id]) >>

GrantStatements(id) ==
    << Delete("measure_area_priority_grant", [grant_id |-> id]),
       Delete("grant_table", [grant_id |-> id]) >>

Statements(et, id) ==
    CASE et = "measure" -> MeasureStatements(id)
      [] et = "area" -> AreaStatements(id)
      [] et = "priority" -> PriorityStatements(id)
      [] et = "species" -> SpeciesStatements(id)
      [] et = "habitat" -> HabitatStatements(id)
      [] et = "grant" -> GrantStatements(id)

\* (mutation) the except clause swallows the error and the method returns
MeasureDeleteSwallowing(d, id, f) ==
    [RunSequential(d, MeasureStatements(id), f) EXCEPT !.raised = "none"]

MeasureDeleteWithCascade(d, id, f) == RunSequential(d, MeasureStatements(id), f)

AreaDeleteWithCascade(d, eager, id, f) ==
    ExecuteTransaction(d, eager, AreaStatements(id), f)

PriorityDeleteWithCascade(d, id, f) ==
    RunSequential(d, PriorityStatements(id), f)

SpeciesDeleteWithCascade(d, eager, id, f) ==
    ExecuteTransaction(d, eager, SpeciesStatements(id), f)

HabitatDeleteWithCascade(d, id, f) == RunSequential(d, HabitatStatements(id), f)

GrantDeleteWithCascade(d, id, f) == RunSequential(d, GrantStatements(id), f)

DeleteWithCascade(et, d, eager, id, f) ==
    CASE et = "measure" -> MeasureDeleteWithCascade(d, id, f)
      [] et = "area" -> AreaDeleteWithCascade(d, eager, id, f)
      [] et = "priority" -> PriorityDeleteWithCascade(d, id, f)
      [] et = "species" -> SpeciesDeleteWithCascade(d, eager, id, f)
      [] et = "habitat" -> HabitatDeleteWithCascade(d, id, f)
      [] et = "grant" -> GrantDeleteWithCascade(d, id, f)

(***************************************************************************)
(* RelationshipModel.delete_measure_area_priority_link and                 *)
(* MeasureModel.add_measure_types                                          *)
(***************************************************************************)
LinkStatements(m, a, p) ==
    << Delete("measure_area_priority_grant",
              [measure_id |-> m, area_id |-> a, priority_id |-> p]),
       Delete("measure_area_priority",
              [measure_id |-> m, area_id |-> a, priority_id |-> p]) >>

\* (mutation) the two steps are one transaction
DeleteMeasureAreaPriorityLinkAtomic(d, m, a, p, f) ==
    ExecuteTransaction(d, FALSE, LinkStatements(m, a, p), f)

DeleteMeasureAreaPriorityLink(d, m, a, p, f) ==
    RunSequential(d, LinkStatements(m, a, p), f)

TypeStatements(m, type_ids) ==
    [k \in 1..Len(type_ids) |->
        Insert("measure_has_type",
               [measure_id |-> m, measure_type_id |-> type_ids[k]])]

\* nothing is executed for an empty list
AddMeasureTypes(d, eager, m, type_ids, f) ==
    IF type_ids = <<>>
    THEN [db |-> d, raised |-> "none", failed |-> 0, trace |-> <<>>]
    ELSE ExecuteTransaction(d, eager, TypeStatements(m, type_ids), f)

(***************************************************************************)
(* MeasureModel.update_with_relationships                                  *)
(***************************************************************************)
\* an optional list argument: None, or a list of ids
NoneArg == [given |-> FALSE, ids |-> <<>>]

Given(q) == [given |-> TRUE, ids |-> q]

\* `if ids:` then one INSERT per id, in list order
InsertsFor(t, col, m, arg) ==
    IF arg.given /\ arg.ids # <<>>
    THEN [k \in 1..Len(arg.ids) |->
             Insert(t, (col :> arg.ids[k]) @@ [measure_id |-> m])]
    ELSE <<>>

\* (mutation) the rows of a relation are deleted only when a list is given
\* for it
UpdateStatementsGuarded(m, data, types, stakeholders, benefits) ==
    (IF data THEN <<Update("measure", [measure_id |-> m])>> ELSE <<>>)
    \o (IF types.given
        THEN <<Delete("measure_has_type", [measure_id |-> m])>> ELSE <<>>)
    \o (IF stakeholders.given
        THEN <<Delete("measure_has_stakeholder", [measure_id |-> m])>>
        ELSE <<>>)
    \o (IF benefits.given
        THEN <<Delete("measure_has_benefits", [measure_id |-> m])>>
        ELSE <<>>)
    \o InsertsFor("measure_has_type", "measure_type_id", m, types)
    \o InsertsFor("measure_has_stakeholder", "stakeholder_id", m,
                  stakeholders)
    \o InsertsFor("measure_has_benefits", "benefit_id", m, benefits)

\* (mutation) the existing rows are not deleted before the new ones go in
UpdateStatementsKeepingRows(m, data, types, stakeholders, benefits) ==
    (IF data THEN <<Update("measure", [measure_id |-> m])>> ELSE <<>>)
    \o InsertsFor("measure_has_type", "measure_type_id", m, types)
    \o InsertsFor("measure_has_stakeholder", "stakeholder_id", m,
                  stakeholders)
    \o InsertsFor("measure_has_benefits", "benefit_id", m, benefits)

\* the queries of update_with_relationships: the UPDATE when measure_data is
\* not empty, the three DELETEs whatever the arguments, then the INSERTs of
\* each list that is given and not empty
UpdateStatements(m, data, types, stakeholders, benefits) ==
    (IF data THEN <<Update("measure", [measure_id |-> m])>> ELSE <<>>)
    \o << Delete("measure_has_type", [measure_id |-> m]),
          Delete("measure_has_stakeholder", [measure_id |-> m]),
          Delete("measure_has_benefits", [measure_id |-> m]) >>
    \o InsertsFor("measure_has_type", "measure_type_id", m, types)
    \o InsertsFor("measure_has_stakeholder", "stakeholder_id", m,
                  stakeholders)
    \o InsertsFor("measure_has_benefits", "benefit_id", m, benefits)

UpdateWithRelationships(d, eager, m, data, types, stakeholders, benefits, f) ==
    ExecuteTransaction(
        d, eager, UpdateStatements(m, data, types, stakeholders, benefits), f)

(***************************************************************************)
(* RelationshipModel: creating links and grants on links                   *)
(***************************************************************************)
\* the relations a link is created in
LinkTables ==
    { "measure_area_priority", "species_area_priority",
      "habitat_creation_area", "habitat_management_area",
      "measure_area_priority_grant" }

\* SELECT COUNT(*) ... WHERE every column = its value: ok says rows exist
Select(d, t, row) == Event("SELECT", t, row \in d[t])

\* (mutation) the INSERT is issued without looking for the row first
InsertUnchecked(d, t, row, f) ==
    RunSequential(d, <<Insert(t, row)>>, f)

\* the body shared by the create_*_link methods: raise ValueError when the
\* row is there, else one INSERT on the autocommitting connection, whose
\* error is logged and raised again
InsertUnlessExists(d, t, row, f) ==
    IF row \in d[t]
    THEN [db |-> d, raised |-> "ValueError", failed |-> 0,
          trace |-> <<Select(d, t, row)>>]
    ELSE LET r == RunSequential(d, <<Insert(t, row)>>, f)
         IN  [r EXCEPT !.trace = <<Select(d, t, row)>> \o @]

\* the relations whose links have no dependent rows
SimpleLinkTables ==
    { "species_area_priority", "habitat_creation_area",
      "habitat_management_area" }

\* delete_species_area_priority_link, delete_habitat_creation_link and
\* delete_habitat_management_link: one DELETE on the full id tuple, its
\* error logged and raised again
DeleteLinkIn(d, t, row, f) == RunSequential(d, <<Delete(t, row)>>, f)

\* the measure_area_priority row a grant row is put on
BaseLink(row) ==
    [measure_id |-> row.measure_id, area_id |-> row.area_id,
     priority_id |-> row.priority_id]

\* add_grant_to_link: ValueError when the link is not there, then as the
\* create_*_link methods
AddGrantToLink(d, row, f) ==
    IF BaseLink(row) \notin d["measure_area_priority"]
    THEN [db |-> d, raised |-> "ValueError", failed |-> 0,
          trace |-> <<Select(d, "measure_area_priority", BaseLink(row))>>]
    ELSE LET r == InsertUnlessExists(d, "measure_area_priority_grant", row, f)
         IN  [r EXCEPT !.trace =
                 <<Select(d, "measure_area_priority", BaseLink(row))>> \o @]

\* create_measure_area_priority_link, create_species_area_priority_link,
\* create_habitat_creation_link, create_habitat_management_link and
\* add_grant_to_link, by the relation they write
CreateLinkIn(d, t, row, f) ==
    IF t = "measure_area_priority_grant" THEN AddGrantToLink(d, row, f)
    ELSE InsertUnlessExists(d, t, row, f)

\* the id tuples of the three nested loops of bulk_create, in loop order
Combinations(ms, as, ps) ==
    [k \in 1..(Len(ms) * Len(as) * Len(ps)) |->
        [measure_id |-> ms[((k - 1) \div (Len(as) * Len(ps))) + 1],
         area_id |-> as[(((k - 1) \div Len(ps)) % Len(as)) + 1],
         priority_id |-> ps[((k - 1) % Len(ps)) + 1]]]

\* the INSERTs queued for the tuples that link_exists did not find
BulkStatements(d, combos) ==
    LET new == SelectSeq(combos,
                         LAMBDA c : c \notin d["measure_area_priority"])
    IN  [k \in 1..Len(new) |-> Insert("measure_area_priority", new[k])]

\* the tuples reported as skipped
Skipped(d, combos) ==
    SelectSeq(combos, LAMBDA c : c \in d["measure_area_priority"])

\* (mutation) the count returned is the number of tuples considered
BulkCreateCountingAll(d, eager, ms, as, ps, f) ==
    LET combos == Combinations(ms, as, ps)
        queries == BulkStatements(d, combos)
        r == ExecuteTransaction(d, eager, queries, f)
    IN  IF queries = <<>>
        THEN [db |-> d, raised |-> "none", failed |-> 0, trace |-> <<>>,
              created |-> Len(combos), skipped |-> Skipped(d, combos)]
        ELSE [db |-> r.db, raised |-> r.raised, failed |-> r.failed,
              trace |-> r.trace,
              created |-> IF r.raised = "none" THEN Len(combos) ELSE 0,
              skipped |-> Skipped(d, combos)]

\* bulk_create_measure_area_priority_links: every tuple is looked up before
\* anything is inserted; without new tuples (0, skipped) is returned and no
\* transaction is opened; else the INSERTs go to execute_transaction and
\* their number is returned
BulkCreateMeasureAreaPriorityLinks(d, eager, ms, as, ps, f) ==
    LET combos == Combinations(ms, as, ps)
        queries == BulkStatements(d, combos)
        r == ExecuteTransaction(d, eager, queries, f)
    IN  IF queries = <<>>
        THEN [db |-> d, raised |-> "none", failed |-> 0, trace |-> <<>>,
              created |-> 0, skipped |-> Skipped(d, combos)]
        ELSE [db |-> r.db, raised |-> r.raised, failed |-> r.failed,
              trace |-> r.trace,
              created |-> IF r.raised = "none" THEN Len(queries) ELSE 0,
              skipped |-> Skipped(d, combos)]

\* the models whose delete_with_cascade carries @with_snapshot("delete", ...)
Decorated == {"measure", "priority", "grant"}

(***************************************************************************)
(* BackupManager                                                           *)
(***************************************************************************)
\* "_".join(parts): the timestamp, then each label that is not None, 0 or ""
SnapshotId(ts, op, et, eid) ==
    ToString(ts)
    \o (IF op # "" THEN "_" \o op ELSE "")
    \o (IF et # "" THEN "_" \o et ELSE "")
    \o (IF eid # 0 THEN "_" \o ToString(eid) ELSE "")

Metadata(ts, op, et, eid) ==
    [snapshot_id |-> SnapshotId(ts, op, et, eid),
     timestamp |-> ts,
     operation_type |-> op,
     entity_type |-> et,
     entity_id |-> eid,
     file_path |-> SnapshotId(ts, op, et, eid)]

\* _save_metadata: the record goes to the end of the list in the file
SaveMetadata(j, m) == Append(j, m)

\* (mutation) create_snapshot does not look at self.enabled
CreateSnapshotWhenDisabled(on, j, fs, d, ts, op, et, eid, fail) ==
    LET m == Metadata(ts, op, et, eid) IN
    [journal |-> SaveMetadata(j, m), files |-> (m.file_path :> d) @@ fs,
     id |-> m.snapshot_id, raised |-> "none"]

\* create_snapshot on journal j, snapshot files fs and live file content d.
\* fail names the step that raises: "copy" (shutil.copy2), "metadata"
\* (_save_metadata) or "none".  id = "" stands for None.
CreateSnapshot(on, j, fs, d, ts, op, et, eid, fail) ==
    LET m == Metadata(ts, op, et, eid) IN
    IF ~on THEN [journal |-> j, files |-> fs, id |-> "", raised |-> "none"]
    ELSE IF fail = "copy"
         THEN [journal |-> j, files |-> fs, id |-> "", raised |-> "Exception"]
    ELSE IF fail = "metadata"
         THEN [journal |-> j, files |-> (m.file_path :> d) @@ fs, id |-> "",
               raised |-> "Exception"]
    ELSE [journal |-> SaveMetadata(j, m),
          files |-> (m.file_path :> d) @@ fs,
          id |-> m.snapshot_id, raised |-> "none"]

\* snapshots.sort(key = timestamp, reverse = True): a stable sort, so records
\* of one second keep their journal order
RECURSIVE NewestFirst(_, _)
NewestFirst(j, t) ==
    IF t < 0 THEN <<>>
    ELSE SelectSeq(j, LAMBDA m : m.timestamp = t) \o NewestFirst(j, t - 1)

\* list_snapshots() without filters or limit
ListSnapshots(on, j) == IF on THEN NewestFirst(j, MaxTime) ELSE <<>>

\* (mutation) an id without a record falls back on the newest snapshot
FindSnapshotOrNewest(l, sid) ==
    IF \E i \in 1..Len(l) : l[i].snapshot_id = sid
    THEN CHOOSE i \in 1..Len(l) :
            /\ l[i].snapshot_id = sid
            /\ \A k \in 1..(i - 1) : l[k].snapshot_id # sid
    ELSE IF Len(l) > 0 THEN 1 ELSE 0

\* next(s for s in snapshots if s["snapshot_id"] == sid, None), as an index
FindSnapshot(l, sid) ==
    IF \E i \in 1..Len(l) : l[i].snapshot_id = sid
    THEN CHOOSE i \in 1..Len(l) :
            /\ l[i].snapshot_id = sid
            /\ \A k \in 1..(i - 1) : l[k].snapshot_id # sid
    ELSE 0

RestoreFailures == {"none", "safety", "copy", "reconnect", "verify"}

\* (mutation) a failure after the live file was replaced is logged and the
\* call returns
RestoreSnapshotSwallowing(on, j, fs, d, open, ts, sid, fail) ==
    LET l == ListSnapshots(on, j)
        i == FindSnapshot(l, sid)
        same(err) == [journal |-> j, files |-> fs, db |-> d, open |-> open,
                      raised |-> err, safety |-> "", trace |-> <<>>]
    IN
    IF ~on THEN same("RuntimeError")
    ELSE IF i = 0 THEN same("ValueError")
    ELSE IF l[i].file_path \notin DOMAIN fs THEN same("FileNotFoundError")
    ELSE
      LET c == CreateSnapshot(on, j, fs, d, ts, "pre_restore", "", 0,
                              IF fail = "safety" THEN "copy" ELSE "none")
          snap == <<Event("SNAPSHOT", c.id, c.raised = "none")>>
          closed == <<Event("CLOSE", "", TRUE)>>
          copied == <<Event("COPY", l[i].file_path, fail # "copy")>>
          opened == <<Event("OPEN", "", fail # "reconnect")>>
          verified == <<Event("VERIFY", "", fail # "verify")>>
      IN
      IF c.raised # "none"
      THEN [journal |-> c.journal, files |-> c.files, db |-> d,
            open |-> open, raised |-> "Exception", safety |-> c.id,
            trace |-> snap]
      ELSE IF fail = "copy"
      THEN [journal |-> c.journal, files |-> c.files, db |-> d,
            open |-> FALSE, raised |-> "Exception", safety |-> c.id,
            trace |-> snap \o closed \o copied]
      ELSE IF fail = "reconnect"
      THEN [journal |-> c.journal, files |-> c.files,
            db |-> c.files[l[i].file_path], open |-> FALSE,
            raised |-> "none", safety |-> c.id,
            trace |-> snap \o closed \o copied \o opened]
      ELSE [journal |-> c.journal, files |-> c.files,
            db |-> c.files[l[i].file_path], open |-> TRUE,
            raised |-> "none",
            safety |-> c.id,
            trace |-> snap \o closed \o copied \o opened \o verified]

\* (mutation) the live file is replaced while the handle is still open
RestoreSnapshotOpenHandle(on, j, fs, d, open, ts, sid, fail) ==
    LET l == ListSnapshots(on, j)
        i == FindSnapshot(l, sid)
        same(err) == [journal |-> j, files |-> fs, db |-> d, open |-> open,
                      raised |-> err, safety |-> "", trace |-> <<>>]
    IN
    IF ~on THEN same("RuntimeError")
    ELSE IF i = 0 THEN same("ValueError")
    ELSE IF l[i].file_path \notin DOMAIN fs THEN same("FileNotFoundError")
    ELSE
      LET c == CreateSnapshot(on, j, fs, d, ts, "pre_restore", "", 0,
                              IF fail = "safety" THEN "copy" ELSE "none")
          snap == <<Event("SNAPSHOT", c.id, c.raised = "none")>>
          closed == <<Event("CLOSE", "", TRUE)>>
          copied == <<Event("COPY", l[i].file_path, fail # "copy")>>
          opened == <<Event("OPEN", "", fail # "reconnect")>>
          verified == <<Event("VERIFY", "", fail # "verify")>>
      IN
      IF c.raised # "none"
      THEN [journal |-> c.journal, files |-> c.files, db |-> d,
            open |-> open, raised |-> "Exception", safety |-> c.id,
            trace |-> snap]
      ELSE IF fail = "copy"
      THEN [journal |-> c.journal, files |-> c.files, db |-> d,
            open |-> FALSE, raised |-> "Exception", safety |-> c.id,
            trace |-> snap \o closed \o copied]
      ELSE IF fail = "reconnect"
      THEN [journal |-> c.journal, files |-> c.files,
            db |-> c.files[l[i].file_path], open |-> FALSE,
            raised |-> "Exception", safety |-> c.id,
            trace |-> snap \o closed \o copied \o opened]
      ELSE [journal |-> c.journal, files |-> c.files,
            db |-> c.files[l[i].file_path], open |-> TRUE,
            raised |-> IF fail = "verify" THEN "Exception" ELSE "none",
            safety |-> c.id,
            trace |-> snap \o copied \o closed \o opened \o verified]

\* restore_snapshot.  fail names the step that raises.  open is whether the
\* process-wide connection is open.
RestoreSnapshot(on, j, fs, d, open, ts, sid, fail) ==
    LET l == ListSnapshots(on, j)
        i == FindSnapshot(l, sid)
        same(err) == [journal |-> j, files |-> fs, db |-> d, open |-> open,
                      raised |-> err, safety |-> "", trace |-> <<>>]
    IN
    IF ~on THEN same("RuntimeError")
    ELSE IF i = 0 THEN same("ValueError")
    ELSE IF l[i].file_path \notin DOMAIN fs THEN same("FileNotFoundError")
    ELSE
      LET c == CreateSnapshot(on, j, fs, d, ts, "pre_restore", "", 0,
                              IF fail = "safety" THEN "copy" ELSE "none")
          snap == <<Event("SNAPSHOT", c.id, c.raised = "none")>>
          closed == <<Event("CLOSE", "", TRUE)>>
          copied == <<Event("COPY", l[i].file_path, fail # "copy")>>
          opened == <<Event("OPEN", "", fail # "reconnect")>>
          verified == <<Event("VERIFY", "", fail # "verify")>>
      IN
      IF c.raised # "none"
      THEN [journal |-> c.journal, files |-> c.files, db |-> d,
            open |-> open, raised |-> "Exception", safety |-> c.id,
            trace |-> snap]
      ELSE IF fail = "copy"
      THEN [journal |-> c.journal, files |-> c.files, db |-> d,
            open |-> FALSE, raised |-> "Exception", safety |-> c.id,
            trace |-> snap \o closed \o copied]
      ELSE IF fail = "reconnect"
      THEN [journal |-> c.journal, files |-> c.files,
            db |-> c.files[l[i].file_path], open |-> FALSE,
            raised |-> "Exception", safety |-> c.id,
            trace |-> snap \o closed \o copied \o opened]
      ELSE [journal |-> c.journal, files |-> c.files,
            db |-> c.files[l[i].file_path], open |-> TRUE,
            raised |-> IF fail = "verify" THEN "Exception" ELSE "none",
            safety |-> c.id,
            trace |-> snap \o closed \o copied \o opened \o verified]

\* list_snapshots(operation_type, entity_type, limit): filter, then sort by
\* timestamp, newest first, then cut to limit.  "" and 0 stand for None;
\* `if limit:` also skips a limit of 0
ListSnapshotsWith(on, j, op, et, limit) ==
    LET byOp == IF op # ""
                THEN SelectSeq(j, LAMBDA m : m.operation_type = op) ELSE j
        byEt == IF et # ""
                THEN SelectSeq(byOp, LAMBDA m : m.entity_type = et) ELSE byOp
        sorted == NewestFirst(byEt, MaxTime)
    IN  IF ~on THEN <<>>
        ELSE IF limit # 0 /\ limit < Len(sorted)
             THEN SubSeq(sorted, 1, limit)
             ELSE sorted

\* the loop of cleanup_old_snapshots over to_delete[k..]: a file that exists
\* is unlinked and counted, a missing one is skipped; the unlink numbered u
\* raises, which the loop logs and passes over
RECURSIVE UnlinkFrom(_, _, _, _, _)
UnlinkFrom(fs, old, k, n, u) ==
    IF k > Len(old) THEN [files |-> fs, deleted |-> n]
    ELSE LET path == old[k].file_path IN
         IF path \in DOMAIN fs /\ k # u
         THEN UnlinkFrom([q \in DOMAIN fs \ {path} |-> fs[q]], old, k + 1,
                         n + 1, u)
         ELSE UnlinkFrom(fs, old, k + 1, n, u)

\* cleanup_old_snapshots(keep_count).  u is the unlink that raises (0: none);
\* write is whether the journal file can be rewritten (the failure is logged
\* and the journal stays as it was)
CleanupOldSnapshots(on, j, fs, keep, u, write) ==
    LET l == ListSnapshots(on, j)
        r == UnlinkFrom(fs, SubSeq(l, keep + 1, Len(l)), 1, 0, u)
    IN  IF ~on THEN [journal |-> j, files |-> fs, deleted |-> 0]
        ELSE IF Len(l) <= keep THEN [journal |-> j, files |-> fs, deleted |-> 0]
        ELSE [journal |-> IF write THEN SubSeq(l, 1, keep) ELSE j,
              files |-> r.files, deleted |-> r.deleted]

(***************************************************************************)
(* with_snapshot(operation_type, entity_type): the decorator takes the     *)
(* snapshot labelled with the entity id and then calls the method          *)
(***************************************************************************)
WithSnapshot(on, j, fs, d, ts, et, id) ==
    CreateSnapshot(on, j, fs, d, ts, "delete", et, id, "none")

(***************************************************************************)
(* State                                                                   *)
(***************************************************************************)
NoCall == [op |-> "none", etype |-> "", id |-> 0, sid |-> "",
           raised |-> "none", failed |-> 0, stmts |-> <<>>, trace |-> <<>>,
           pre |-> InitialDb]

\* the objects as constructed: DatabaseConnection on the shipped database,
\* BackupManager with an empty journal and backup directory
Constructed ==
    /\ db = InitialDb
    /\ now = 0
    /\ journal = <<>>
    /\ files = <<>>
    /\ connOpen = TRUE
    /\ taken = {}
    /\ last = NoCall
    /\ calls = 0
    /\ backups = 0

\* the cloud deployment: _detect_cloud_environment() is true and the
\* BackupManager is disabled; the store may or may not check foreign keys
\* statement by statement inside a transaction
Init ==
    /\ Constructed
    /\ eagerFK \in BOOLEAN
    /\ enabled = FALSE

\* a second passes on the clock datetime.now() reads
Tick ==
    /\ now < MaxTime
    /\ now' = now + 1
    /\ UNCHANGED <<db, eagerFK, enabled, journal, files, connOpen, taken, last,
                   calls, backups>>

\* what create_snapshot handed back: the id, the live content it was called
\* on and its rank among the snapshots handed out so far (the order of the
\* "datetime" fields of the records, finer than their one-second timestamps)
Took(c, d) ==
    IF c.id = "" THEN {}
    ELSE {[snapshot_id |-> c.id, content |-> d, seq |-> Cardinality(taken)]}

\* a page or a test calls Model().delete_with_cascade(id); statement f fails
DeleteEntity(et, id, f) ==
    LET c == IF et \in Decorated
             THEN WithSnapshot(enabled, journal, files, db, now, et, id)
             ELSE [journal |-> journal, files |-> files, id |-> "",
                   raised |-> "none"]
        r == DeleteWithCascade(et, db, eagerFK, id, f)
    IN  /\ calls < MaxCalls
        /\ calls' = calls + 1
        /\ Len(c.journal) <= MaxSnapshots
        /\ db' = r.db
        /\ journal' = c.journal
        /\ files' = c.files
        /\ taken' = taken \cup Took(c, db)
        /\ last' = [op |-> "delete", etype |-> et, id |-> id, sid |-> c.id,
                    raised |-> r.raised, failed |-> r.failed,
                    stmts |-> Statements(et, id),
                    trace |-> (IF c.id # ""
                               THEN <<Event("SNAPSHOT", c.id, TRUE)>>
                               ELSE <<>>) \o r.trace,
                    pre |-> db]
        /\ connOpen' = TRUE
        /\ UNCHANGED <<eagerFK, enabled, now, backups>>

\* a relationship page calls delete_measure_area_priority_link on a link it
\* lists; statement f fails
DeleteLink(m, a, p, f) ==
    LET r == DeleteMeasureAreaPriorityLink(db, m, a, p, f)
    IN  /\ calls < MaxCalls
        /\ calls' = calls + 1
        /\ db' = r.db
        /\ last' = [op |-> "delete_link", etype |-> "", id |-> 0, sid |-> "",
                    raised |-> r.raised, failed |-> r.failed,
                    stmts |-> LinkStatements(m, a, p), trace |-> r.trace,
                    pre |-> db]
        /\ connOpen' = TRUE
        /\ UNCHANGED <<eagerFK, enabled, now, journal, files, taken, backups>>

\* the measure form calls add_measure_types(m, type_ids); statement f fails
AddTypes(m, type_ids, f) ==
    LET r == AddMeasureTypes(db, eagerFK, m, type_ids, f)
    IN  /\ calls < MaxCalls
        /\ calls' = calls + 1
        /\ db' = r.db
        /\ last' = [op |-> "add_types", etype |-> "", id |-> m, sid |-> "",
                    raised |-> r.raised, failed |-> r.failed,
                    stmts |-> TypeStatements(m, type_ids), trace |-> r.trace,
                    pre |-> db]
        /\ connOpen' = TRUE
        /\ UNCHANGED <<eagerFK, enabled, now, journal, files, taken, backups>>

\* the journal, the snapshot files and the handle as a BackupManager call
\* finds them
Before == [journal |-> journal, files |-> files, open |-> connOpen]

\* the backup page or a test calls create_snapshot(description, op)
ManualSnapshot(op, fail) ==
    LET c == CreateSnapshot(enabled, journal, files, db, now, op, "", 0, fail)
    IN  /\ backups < MaxBackupCalls
        /\ backups' = backups + 1
        /\ Len(c.journal) <= MaxSnapshots
        /\ journal' = c.journal
        /\ files' = c.files
        /\ taken' = taken \cup Took(c, db)
        /\ last' = [op |-> "snapshot", etype |-> "", id |-> 0, sid |-> c.id,
                    raised |-> c.raised, failed |-> 0, stmts |-> <<>>,
                    trace |-> <<>>, pre |-> db, was |-> Before]
        /\ UNCHANGED <<db, eagerFK, enabled, now, connOpen, calls>>

\* the backup page or a test calls restore_snapshot(sid)
Restore(sid, fail) ==
    LET r == RestoreSnapshot(enabled, journal, files, db, connOpen, now,
                             sid, fail)
    IN  /\ backups < MaxBackupCalls
        /\ backups' = backups + 1
        /\ Len(r.journal) <= MaxSnapshots + 1
        /\ db' = r.db
        /\ journal' = r.journal
        /\ files' = r.files
        /\ connOpen' = r.open
        /\ taken' = taken \cup Took([id |-> r.safety], db)
        /\ last' = [op |-> "restore", etype |-> "", id |-> 0, sid |-> sid,
                    raised |-> r.raised, failed |-> 0, stmts |-> <<>>,
                    trace |-> r.trace, pre |-> db, was |-> Before]
        /\ UNCHANGED <<eagerFK, enabled, now, calls>>

\* the backup page or a test calls cleanup_old_snapshots(keep_count)
Cleanup(keep, u, write) ==
    LET r == CleanupOldSnapshots(enabled, journal, files, keep, u, write)
    IN  /\ backups < MaxBackupCalls
        /\ backups' = backups + 1
        /\ journal' = r.journal
        /\ files' = r.files
        /\ last' = [op |-> "cleanup", etype |-> "", id |-> keep, sid |-> "",
                    raised |-> "none", failed |-> u, stmts |-> <<>>,
                    trace |-> <<>>, pre |-> db, was |-> Before,
                    ret |-> r.deleted]
        /\ UNCHANGED <<db, eagerFK, enabled, now, connOpen, taken, calls>>

\* the backup page or a test calls list_snapshots(op, et, limit)
List(op, et, limit) ==
    /\ backups < MaxBackupCalls
    /\ backups' = backups + 1
    /\ last' = [op |-> "list", etype |-> et, id |-> limit, sid |-> op,
                raised |-> "none", failed |-> 0, stmts |-> <<>>,
                trace |-> <<>>, pre |-> db, was |-> Before,
                ret |-> ListSnapshotsWith(enabled, journal, op, et, limit)]
    /\ UNCHANGED <<db, eagerFK, enabled, now, journal, files, connOpen, taken,
                   calls>>

SnapshotIds == {journal[i].snapshot_id : i \in 1..Len(journal)}

\* the links the relationship page lists
Links == db["measure_area_priority"]

\* the type lists the measure form submits
TypeLists == {<<>>, <<2, 1>>}

\* the cascade deletes (the decorator's snapshot is skipped while the
\* BackupManager is disabled), the link delete and the grouped insert
Next ==
    \/ \E et \in EntityTypes, id \in Ids :
          \E f \in 0..(Len(Statements(et, id)) + 1) : DeleteEntity(et, id, f)
    \/ \E l \in Links, f \in 0..2 :
          DeleteLink(l.measure_id, l.area_id, l.priority_id, f)
    \/ \E m \in Ids, ts \in TypeLists :
          \E f \in 0..(Len(ts) + 1) : AddTypes(m, ts, f)

Spec == Init /\ [][Next]_vars

\* the ids of the rows of an entity table
Existing(et) == {r[IdColumn(et)] : r \in db[EntityTable(et)]}

\* the store is mutated by deleting a listed measure (snapshot by decorator)
\* or habitat (no snapshot); no statement fails
Mutate ==
    \E et \in {"measure", "habitat"} :
        \E id \in Existing(et) : DeleteEntity(et, id, 0)

\* the local deployment, BackupManager enabled unless the environment says
\* cloud; none of the handlers of these runs opens a transaction
InitBackup ==
    /\ Constructed
    /\ eagerFK = FALSE
    /\ enabled \in BOOLEAN

\* snapshots taken and restored between mutations of the store, on a clock;
\* no copy, metadata write, reconnect or verification fails
NextBackup ==
    \/ Tick
    \/ Mutate
    \/ ManualSnapshot("manual", "none")
    \/ \E sid \in SnapshotIds \cup {"missing"} : Restore(sid, "none")

SpecBackup == InitBackup /\ [][NextBackup]_vars

\* the same deployment when a copy, a metadata write, a reconnect, the
\* verification, an unlink or the rewrite of the journal may fail, with the
\* retention cleanup of the backup page, all within one second
NextFaults ==
    \/ calls < MaxMutations /\ Mutate
    \/ /\ backups < MaxFaultCalls
       /\ \/ \E fail \in {"none", "copy", "metadata"} :
                ManualSnapshot("manual", fail)
          \/ \E sid \in SnapshotIds \cup {"missing"}, fail \in RestoreFailures :
                Restore(sid, fail)
          \/ \E keep \in 0..MaxKeep, fail \in {"none", "unlink", "write"} :
                Cleanup(keep, IF fail = "unlink" THEN 1 ELSE 0,
                        fail # "write")

SpecFaults == InitBackup /\ [][NextFaults]_vars

\* the backup page: snapshots taken on a clock, listed with filters and a
\* limit, and cleaned up; nothing fails
NextRetention ==
    \/ Tick
    \/ calls < MaxMutations /\ Mutate
    \/ /\ backups < MaxRetentionCalls
       /\ \/ ManualSnapshot("manual", "none")
          \/ \E keep \in 0..MaxKeep : Cleanup(keep, 0, TRUE)
          \/ \E op \in {"", "manual"}, et \in {"", "measure"} :
                \E limit \in 0..MaxLimit : List(op, et, limit)

SpecRetention == InitBackup /\ [][NextRetention]_vars

\* a relationship page calls the create method of relation t with the ids
\* of row; the INSERT fails for an outside reason when f = 1
CreateLink(t, row, f) ==
    LET r == CreateLinkIn(db, t, row, f)
    IN  /\ calls < MaxLinkCalls
        /\ calls' = calls + 1
        /\ db' = r.db
        /\ last' = [op |-> "create_link", etype |-> t, id |-> 0, sid |-> "",
                    raised |-> r.raised, failed |-> r.failed,
                    stmts |-> <<Insert(t, row)>>, trace |-> r.trace,
                    pre |-> db]
        /\ connOpen' = TRUE
        /\ UNCHANGED <<eagerFK, enabled, now, journal, files, taken, backups>>

\* a test calls the delete method of a relation without dependents
DeleteSimpleLink(t, row, f) ==
    LET r == DeleteLinkIn(db, t, row, f)
    IN  /\ calls < MaxLinkCalls
        /\ calls' = calls + 1
        /\ db' = r.db
        /\ last' = [op |-> "delete_simple_link", etype |-> t, id |-> 0,
                    sid |-> "", raised |-> r.raised, failed |-> r.failed,
                    stmts |-> <<Delete(t, row)>>, trace |-> r.trace,
                    pre |-> db]
        /\ connOpen' = TRUE
        /\ UNCHANGED <<eagerFK, enabled, now, journal, files, taken, backups>>

\* the bulk form submits its three id lists
BulkCreate(ms, as, ps, f) ==
    LET r == BulkCreateMeasureAreaPriorityLinks(db, eagerFK, ms, as, ps, f)
    IN  /\ calls < MaxLinkCalls
        /\ calls' = calls + 1
        /\ db' = r.db
        /\ last' = [op |-> "bulk_create", etype |-> "", id |-> 0, sid |-> "",
                    raised |-> r.raised, failed |-> r.failed,
                    stmts |-> BulkStatements(db, Combinations(ms, as, ps)),
                    trace |-> r.trace, pre |-> db,
                    combos |-> Combinations(ms, as, ps),
                    ret |-> [created |-> r.created, skipped |-> r.skipped]]
        /\ connOpen' = TRUE
        /\ UNCHANGED <<eagerFK, enabled, now, journal, files, taken, backups>>

\* the id lists the bulk form submits: one id, two ids, one id twice
IdLists == {<<1>>, <<1, MaxId>>, <<MaxId, MaxId>>}

\* the id tuples a form can submit for relation t: the shipped ids, with at
\* most one column set to another id
LinkRows(t) ==
    {r \in [Columns(t) -> Ids] :
        Cardinality({c \in Columns(t) : r[c] # 1}) <= 1}

\* the relationship pages: links and grants on links created and
\* measure-area-priority links deleted, against a store that rejects what
\* breaks its keys
NextLinks ==
    \/ \E t \in LinkTables : \E row \in LinkRows(t), f \in 0..1 :
          CreateLink(t, row, f)
    \/ \E l \in Links, f \in 0..2 :
          DeleteLink(l.measure_id, l.area_id, l.priority_id, f)
    \/ \E t \in SimpleLinkTables : \E row \in db[t], f \in 0..1 :
          DeleteSimpleLink(t, row, f)
    \/ \E ms \in IdLists, as \in IdLists, f \in 0..2 :
          BulkCreate(ms, as, <<1>>, f)

SpecLinks == Init /\ [][NextLinks]_vars

\* links created and deleted between cascade deletes, any statement of a
\* delete failing
NextIntegrity ==
    \/ \E et \in EntityTypes, id \in Ids :
          \E f \in 0..(Len(Statements(et, id)) + 1) : DeleteEntity(et, id, f)
    \/ \E l \in Links, f \in 0..2 :
          DeleteLink(l.measure_id, l.area_id, l.priority_id, f)
    \/ /\ calls < MaxCalls
       /\ \E t \in LinkTables : \E row \in LinkRows(t) : CreateLink(t, row, 0)

SpecIntegrity == Init /\ [][NextIntegrity]_vars

\* the measure form or a test calls update_with_relationships; statement f
\* fails
UpdateMeasure(m, data, types, stakeholders, benefits, f) ==
    LET r == UpdateWithRelationships(db, eagerFK, m, data, types,
                                     stakeholders, benefits, f)
    IN  /\ calls < MaxUpdateCalls
        /\ calls' = calls + 1
        /\ db' = r.db
        /\ last' = [op |-> "update", etype |-> "measure", id |-> m,
                    sid |-> "", raised |-> r.raised, failed |-> r.failed,
                    stmts |-> UpdateStatements(m, data, types, stakeholders,
                                               benefits),
                    trace |-> r.trace, pre |-> db,
                    args |-> [measure_has_type |-> types,
                              measure_has_stakeholder |-> stakeholders,
                              measure_has_benefits |-> benefits]]
        /\ connOpen' = TRUE
        /\ UNCHANGED <<eagerFK, enabled, now, journal, files, taken, backups>>

\* what a caller passes for a relation: None, the empty list, two ids
ListArgs == {NoneArg, Given(<<>>), Given(<<2, 1>>)}

\* the statement that fails: none, the first, the last, or COMMIT
FailPoints(stmts) == {0, 1, Len(stmts) + 1}

\* the measure form and the update tests
NextUpdate ==
    \E m \in Ids, data \in BOOLEAN :
        \E types \in ListArgs, stakeholders \in ListArgs,
           benefits \in ListArgs :
            \E f \in FailPoints(UpdateStatements(m, data, types,
                                                  stakeholders, benefits)) :
                UpdateMeasure(m, data, types, stakeholders, benefits, f)

SpecUpdate == Init /\ [][NextUpdate]_vars

\* the models whose delete_with_cascade issues its statements one by one
Sequential == {"measure", "priority", "habitat", "grant"}

\* the caller repeats the delete_with_cascade call it made last, and no
\* statement fails for an outside reason; first is the store as the first
\* of these calls found it
DeleteAgain ==
    LET r == DeleteWithCascade(last.etype, db, eagerFK, last.id, 0)
    IN  /\ last.op \in {"delete", "delete_again"}
        /\ last.etype \in Sequential
        /\ backups < MaxReruns
        /\ backups' = backups + 1
        /\ db' = r.db
        /\ last' = [op |-> "delete_again", etype |-> last.etype,
                    id |-> last.id, sid |-> "",
                    raised |-> r.raised, failed |-> r.failed,
                    stmts |-> Statements(last.etype, last.id),
                    trace |-> r.trace, pre |-> db,
                    first |-> IF last.op = "delete" THEN last.pre
                              ELSE last.first,
                    stopped |-> IF last.op = "delete" THEN last.failed
                                ELSE last.stopped]
        /\ connOpen' = TRUE
        /\ UNCHANGED <<eagerFK, enabled, now, journal, files, taken, calls>>

\* sequential cascades that stop at any step, or complete, and are run
\* again
NextRerun ==
    \/ \E et \in Sequential, id \in Ids :
          \E f \in 0..Len(Statements(et, id)) : DeleteEntity(et, id, f)
    \/ DeleteAgain

SpecRerun == Init /\ [][NextRerun]_vars

\* the statement groups of the callers of execute_transaction
Groups ==
    {AreaStatements(id) : id \in Ids} \cup {SpeciesStatements(id) : id \in Ids}
    \cup {LinkStatements(m, 1, 1) : m \in Ids}

\* a transaction of an earlier call is open on the shared connection
LeftOpen == last.op = "execute_transaction" /\ last.open

\* one call of execute_transaction
Transact(stmts, f, kind) ==
    LET r == ExecuteTransactionOn(db, eagerFK, stmts, f, kind, LeftOpen)
    IN  /\ calls < MaxCalls
        /\ calls' = calls + 1
        /\ db' = r.db
        /\ last' = [op |-> "execute_transaction", etype |-> "", id |-> 0,
                    sid |-> "", raised |-> r.raised, failed |-> r.failed,
                    stmts |-> stmts, trace |-> r.trace, pre |-> db,
                    open |-> r.open, within |-> r.within]
        /\ connOpen' = TRUE
        /\ UNCHANGED <<eagerFK, enabled, now, journal, files, taken,
                       backups>>

\* the shared connection through a run of execute_transaction calls
NextTransaction ==
    \E stmts \in Groups :
        \E f \in 0..(Len(stmts) + 1), kind \in Kinds :
            /\ (kind = "other" => f \in 1..Len(stmts))
            /\ Transact(stmts, f, kind)

SpecTransaction == Init /\ [][NextTransaction]_vars

\* the journal over its life: records appended by cascades, manual
\* snapshots and restores on a clock, and removed by cleanups that keep up
\* to MaxJournalKeep records; nothing fails
NextJournal ==
    \/ Tick
    \/ calls < MaxMutations /\ Mutate
    \/ /\ backups < MaxRetentionCalls
       /\ \/ ManualSnapshot("manual", "none")
          \/ \E sid \in SnapshotIds : Restore(sid, "none")
          \/ \E keep \in 1..MaxJournalKeep : Cleanup(keep, 0, TRUE)

SpecJournal == InitBackup /\ [][NextJournal]_vars

(***************************************************************************)
(* Properties.  last is the observation of the latest handler call: op,    *)
(* etype, id and sid are its arguments; raised is the exception class the  *)
(* caller receives ("none": the method returned); stmts, failed, trace and *)
(* pre are what the call did, which the caller is not handed.              *)
(***************************************************************************)
IsDelete == last.op = "delete"

Returned == last.raised = "none"

InTransaction == \E i \in 1..Len(last.trace) : last.trace[i].ev = "BEGIN"

\* the tables of the statements the call issued, in the order issued
Issued ==
    LET ss == SelectSeq(last.trace,
                        LAMBDA e : e.ev = "DELETE" \/ e.ev = "INSERT")
    IN  [k \in 1..Len(ss) |-> ss[k].table]

\* the rows of table t of store d that carry id in the id column of et
RowsOf(d, t, et, id) ==
    IF IdColumn(et) \in Columns(t)
    THEN {r \in d[t] : r[IdColumn(et)] = id}
    ELSE {}

\* the relations of the deletion plan of et: those with its id column
PlanRelations(et) ==
    {t \in Tables \ {EntityTable(et)} : IdColumn(et) \in Columns(t)}

\* a plan of depth 2 or more: one of its relations references another
Deep(et) ==
    \E fk \in ForeignKeys :
        fk.child \in PlanRelations(et) /\ fk.parent \in PlanRelations(et)

\* C1: when delete_with_cascade returns, no row of any relation of the
\* entity's plan carries the id and the entity row is gone
C1_SuccessLeavesNoRow ==
    (IsDelete /\ Returned) =>
        \A t \in Tables : RowsOf(db, t, last.etype, last.id) = {}

\* C1 witness: a delete returned for an entity that had its row and rows in
\* two or more relations
C1_Witness ==
    /\ IsDelete /\ Returned
    /\ RowsOf(last.pre, EntityTable(last.etype), last.etype, last.id) # {}
    /\ Cardinality({t \in PlanRelations(last.etype) :
                      RowsOf(last.pre, t, last.etype, last.id) # {}}) >= 2

\* C2 (as claimed): a cascade whose plan has depth 2 or more never runs its
\* statements inside one transaction
C2_DeepPlansRunSequentially ==
    (IsDelete /\ Deep(last.etype)) => ~InTransaction

\* C3 (as claimed): a cascade whose plan has depth 1 runs in one transaction,
\* so when it raises the store is as it was before the call
C3_ShallowPlansAreAtomic ==
    (IsDelete /\ ~Deep(last.etype) /\ ~Returned) =>
        (InTransaction /\ db = last.pre)

MeasureOrder ==
    << "measure_has_type", "measure_has_stakeholder",
       "measure_area_priority_grant", "measure_area_priority",
       "measure_has_benefits", "measure_has_species", "measure" >>

\* C4: the statements of a cascade or of a link delete are issued children
\* first: no table is touched before a table that references it, so grants
\* go before links and the entity row goes last; a measure's statements are
\* a prefix of type, stakeholder, grant, link, benefits, species, measure
C4_DeepestFirst ==
    (last.op \in {"delete", "delete_link"}) =>
        /\ \A i, j \in 1..Len(Issued) :
              i < j => ~\E fk \in ForeignKeys :
                          fk.parent = Issued[i] /\ fk.child = Issued[j]
        /\ (IsDelete /\ Returned) =>
              /\ Len(Issued) = Cardinality(PlanRelations(last.etype)) + 1
              /\ Issued[Len(Issued)] = EntityTable(last.etype)
        /\ (IsDelete /\ last.etype = "measure") =>
              Issued = SubSeq(MeasureOrder, 1, Len(Issued))
        /\ (last.op = "delete_link" /\ Returned) =>
              Issued = <<"measure_area_priority_grant",
                         "measure_area_priority">>

\* C4 witness: a priority whose links carried a grant was deleted, so the
\* grant rows had to go before the link rows
C4_Witness ==
    /\ IsDelete /\ Returned /\ last.etype = "priority"
    /\ RowsOf(last.pre, "measure_area_priority", "priority", last.id) # {}
    /\ RowsOf(last.pre, "measure_area_priority_grant", "priority",
              last.id) # {}

C6_SequentialStopsAtFailure ==
    (IsDelete /\ ~InTransaction /\ last.failed # 0) =>
        /\ \A i \in 1..(last.failed - 1) :
              Matching(db, last.stmts[i]) = {}
        /\ \A i \in last.failed..Len(last.stmts) :
              db[last.stmts[i].table] = last.pre[last.stmts[i].table]
        /\ Len(Issued) = last.failed

\* C6 witness: a step after the second failed, the first step had rows to
\* delete and so had the failed one
C6_Witness ==
    /\ IsDelete /\ ~InTransaction /\ last.failed > 2
    /\ Matching(last.pre, last.stmts[1]) # {}
    /\ Matching(last.pre, last.stmts[last.failed]) # {}

C8_MissingIdIsNotFound ==
    (IsDelete /\ last.id \notin
        {r[IdColumn(last.etype)] : r \in last.pre[EntityTable(last.etype)]})
    => last.raised = "NotFound"

\* C9 (as claimed): with snapshots enabled, every delete_with_cascade takes
\* a snapshot of the store as it is before its first DELETE
C9_SnapshotBeforeEveryCascade ==
    (IsDelete /\ enabled) =>
        /\ Len(last.trace) > 0
        /\ last.trace[1].ev = "SNAPSHOT"
        /\ last.sid \in DOMAIN files
        /\ files[last.sid] = last.pre

\* C10 (as claimed): a restore that returns leaves the store with the
\* content it had whenever create_snapshot handed out the restored id
C10_RestoreReturnsSnapshotState ==
    (last.op = "restore" /\ Returned) =>
        \A g \in taken : g.snapshot_id = last.sid => db = g.content

\* the events of the latest call with the given name
Events(ev) == {i \in 1..Len(last.trace) : last.trace[i].ev = ev}

IsRestore == last.op = "restore"

\* the latest call replaced the live file
Replaced == IsRestore /\ \E i \in Events("COPY") : last.trace[i].ok

\* C11 (the ordering part): a restore that gets as far as replacing the live
\* file took a pre_restore snapshot first, one new journal record whose file
\* holds the live state found; a restore whose safety snapshot fails leaves
\* the live file alone
C11_SafetySnapshotFirst ==
    /\ (IsRestore /\ Events("COPY") # {}) =>
          /\ last.trace[1] = Event("SNAPSHOT", last.trace[1].table, TRUE)
          /\ Len(journal) = Len(last.was.journal) + 1
          /\ SubSeq(journal, 1, Len(last.was.journal)) = last.was.journal
          /\ journal[Len(journal)].operation_type = "pre_restore"
          /\ journal[Len(journal)].snapshot_id = last.trace[1].table
          /\ files[journal[Len(journal)].file_path] = last.pre
    /\ (IsRestore /\ \E i \in Events("SNAPSHOT") : ~last.trace[i].ok) =>
          (db = last.pre /\ Events("COPY") = {})

\* C11 (as claimed): besides that, restoring a pre_restore snapshot returns
\* the store to the state the restore that took it found
C11_EveryRestoreIsReversible ==
    /\ C11_SafetySnapshotFirst
    /\ (IsRestore /\ Returned
          /\ \E i \in 1..Len(last.was.journal) :
                /\ last.was.journal[i].snapshot_id = last.sid
                /\ last.was.journal[i].operation_type = "pre_restore") =>
          \A g \in taken : g.snapshot_id = last.sid => db = g.content

\* the records the restore found under the id it was given
RecordsOf(sid) ==
    {i \in 1..Len(last.was.journal) : last.was.journal[i].snapshot_id = sid}

\* C12: an enabled restore_snapshot of an id that has no journal record, or
\* whose snapshot file is missing, raises ValueError or FileNotFoundError
\* and has done nothing else: no safety snapshot, the handle as it was, the
\* live file, the snapshot files and the journal unchanged
C12_NotFoundBeforeAnyAction ==
    (IsRestore /\ enabled
       /\ \/ RecordsOf(last.sid) = {}
          \/ \E i \in RecordsOf(last.sid) :
                last.was.journal[i].file_path \notin DOMAIN last.was.files) =>
        /\ last.raised = (IF RecordsOf(last.sid) = {}
                          THEN "ValueError" ELSE "FileNotFoundError")
        /\ last.trace = <<>>
        /\ journal = last.was.journal
        /\ files = last.was.files
        /\ connOpen = last.was.open
        /\ db = last.pre

\* C12 witness: the id has a record but its file is gone, other snapshot
\* files exist and the handle was open
C12_Witness ==
    /\ IsRestore /\ enabled /\ last.was.open
    /\ last.raised = "FileNotFoundError"
    /\ last.was.files # <<>>

\* C12, second case reached: the id has no record although the journal has
\* records
C12_WitnessNoRecord ==
    /\ IsRestore /\ enabled /\ last.raised = "ValueError"
    /\ last.was.journal # <<>>

\* the reconnect or the verification of the latest restore failed
FailedAfterReplace ==
    /\ Replaced
    /\ \E i \in Events("OPEN") \cup Events("VERIFY") : ~last.trace[i].ok

\* C13: when the reconnect or the verification fails after the live file
\* was replaced, the caller gets the exception, the live file keeps the
\* snapshot's content, and the pre_restore snapshot of this call is the
\* last journal record, its file holding the state the call found
C13_LateFailureIsRaised ==
    FailedAfterReplace =>
        /\ last.raised = "Exception"
        /\ \A i \in 1..Len(journal) :
              journal[i].snapshot_id = last.sid =>
                  db = files[journal[i].file_path]
        /\ journal = Append(last.was.journal, journal[Len(journal)])
        /\ journal[Len(journal)].operation_type = "pre_restore"
        /\ journal[Len(journal)].file_path \in DOMAIN files
        /\ files[journal[Len(journal)].file_path] = last.pre

\* C13 witness: the verification failed on a restore that changed the live
\* file
C13_Witness ==
    /\ FailedAfterReplace
    /\ \E i \in Events("VERIFY") : ~last.trace[i].ok
    /\ db # last.pre

\* C13, the other failure reached: the reconnect failed and the handle is
\* left closed
C13_WitnessReconnect ==
    /\ FailedAfterReplace
    /\ \E i \in Events("OPEN") : ~last.trace[i].ok
    /\ db # last.pre /\ ~connOpen

\* C14: a restore closes the handle before it replaces the live file and
\* opens it again only afterwards; when it returns the handle is open and
\* what is read through it is the content of the restored snapshot's file
C14_HandleClosedAroundReplace ==
    /\ IsRestore =>
          \A c \in Events("COPY") :
              /\ \E k \in Events("CLOSE") : k < c
              /\ \A o \in Events("OPEN") : o > c
    /\ (IsRestore /\ Returned) =>
          /\ Events("COPY") # {} /\ Events("OPEN") # {}
          /\ connOpen
          /\ \A i \in 1..Len(journal) :
                journal[i].snapshot_id = last.sid =>
                    db = files[journal[i].file_path]

\* C14 witness: a restore returned and the live content is no longer what
\* the handle showed before the call
C14_Witness ==
    /\ IsRestore /\ Returned /\ last.was.open
    /\ connOpen /\ db # last.pre

\* the latest call is one of create_snapshot, list_snapshots and
\* cleanup_old_snapshots
IsHousekeeping == last.op \in {"snapshot", "list", "cleanup"}

\* C15: on a disabled manager create_snapshot returns None, list_snapshots
\* the empty list and cleanup_old_snapshots 0; none raises, and the journal
\* and the snapshot files are as before
C15_DisabledManagerDoesNothing ==
    (IsHousekeeping /\ ~enabled) =>
        /\ last.raised = "none"
        /\ last.op = "snapshot" => last.sid = ""
        /\ last.op = "list" => last.ret = <<>>
        /\ last.op = "cleanup" => last.ret = 0
        /\ journal = last.was.journal
        /\ files = last.was.files
        /\ journal = <<>> /\ files = <<>>

\* C15 witness: each of the three was called on the disabled manager after
\* the store had changed; this one is the cleanup
C15_Witness ==
    /\ ~enabled /\ last.op = "cleanup" /\ db # InitialDb

\* C15, the other two calls reached on a disabled manager
C15_WitnessCreate == ~enabled /\ last.op = "snapshot" /\ db # InitialDb

C15_WitnessList == ~enabled /\ last.op = "list" /\ db # InitialDb

\* the latest call is a cleanup on an enabled manager
IsCleanup == last.op = "cleanup" /\ enabled

\* the ids recorded in a journal
IdsOf(j) == {j[i].snapshot_id : i \in 1..Len(j)}

\* the creation rank of the latest snapshot taken under an id
Rank(sid) ==
    LET S == {t.seq : t \in {x \in taken : x.snapshot_id = sid}}
    IN  CHOOSE n \in S : \A m \in S : m <= n

\* the smaller of two numbers
Min(a, b) == IF a < b THEN a ELSE b

\* C16 (the count alone): after cleanup(K) on n entries min(K, n) are left
C16_KeepsCount ==
    IsCleanup => Len(journal) = Min(last.id, Len(last.was.journal))

\* C16: after cleanup(K) on n entries exactly min(K, n) are left, and every
\* entry kept was created after every entry removed
C16_KeepsMostRecent ==
    IsCleanup =>
        /\ Len(journal) = Min(last.id, Len(last.was.journal))
        /\ \A k \in IdsOf(journal) :
              \A r \in IdsOf(last.was.journal) \ IdsOf(journal) :
                  Rank(k) > Rank(r)

\* C17: cleanup(K) on n entries returns n - K when n > K, and 0 otherwise
C17_ReturnsRemovedCount ==
    IsCleanup =>
        last.ret = IF Len(last.was.journal) > last.id
                   THEN Len(last.was.journal) - last.id
                   ELSE 0

\* the latest call is list_snapshots on an enabled manager
IsList == last.op = "list" /\ enabled

\* an entry passes the filters of the latest list_snapshots call
Matches(m) ==
    /\ last.sid # "" => m.operation_type = last.sid
    /\ last.etype # "" => m.entity_type = last.etype

\* the entries of the journal that pass the filters, in journal order
Filtered == SelectSeq(last.was.journal, Matches)

\* C18 (filters and limit alone): only matching entries are returned, and
\* as many of them as the limit allows (limit 0 stands for no limit)
C18_FiltersBeforeLimit ==
    IsList =>
        /\ \A i \in 1..Len(last.ret) : Matches(last.ret[i])
        /\ Len(last.ret) = IF last.id = 0 THEN Len(Filtered)
                           ELSE Min(last.id, Len(Filtered))

\* C18: list_snapshots returns the matching entries newest-first by
\* creation, cut to the limit after filtering: those returned are in
\* decreasing order of creation and are newer than every matching entry
\* left out
C18_NewestFirst ==
    IsList =>
        /\ \A i \in 1..Len(last.ret) : Matches(last.ret[i])
        /\ Len(last.ret) = IF last.id = 0 THEN Len(Filtered)
                           ELSE Min(last.id, Len(Filtered))
        /\ \A i, k \in 1..Len(last.ret) :
              (i < k /\ last.ret[i].snapshot_id # last.ret[k].snapshot_id)
                  => Rank(last.ret[i].snapshot_id)
                        > Rank(last.ret[k].snapshot_id)
        /\ \A r \in IdsOf(last.ret) : \A o \in IdsOf(Filtered) \ IdsOf(last.ret) :
              Rank(r) > Rank(o)

\* C19: a snapshot file that exists before and after a step has the same
\* content after it: no create_snapshot, restore_snapshot or mutation of
\* the store changes a snapshot once it is taken
C19_SnapshotsImmutable ==
    [][\A f \in DOMAIN files \cap DOMAIN files' : files'[f] = files[f]]_vars

\* C20: journal entries and snapshot files correspond one-to-one: every
\* entry names an existing file, no two entries share an id or a file, and
\* every file has an entry
C20_JournalMatchesFiles ==
    /\ \A i \in 1..Len(journal) : journal[i].file_path \in DOMAIN files
    /\ \A i, k \in 1..Len(journal) :
          i # k => /\ journal[i].snapshot_id # journal[k].snapshot_id
                   /\ journal[i].file_path # journal[k].file_path
    /\ \A f \in DOMAIN files : \E i \in 1..Len(journal) : journal[i].file_path = f

\* C20, each break taken alone: an entry without a file
C20_EveryEntryHasAFile ==
    \A i \in 1..Len(journal) : journal[i].file_path \in DOMAIN files

\* C20: a file without an entry
C20_EveryFileHasAnEntry ==
    \A f \in DOMAIN files : \E i \in 1..Len(journal) : journal[i].file_path = f

\* a is b with some of its records left out, the others in b's order
RECURSIVE IsSubSeq(_, _)
IsSubSeq(a, b) ==
    IF a = <<>> THEN TRUE
    ELSE IF b = <<>> THEN FALSE
    ELSE IF Head(a) = Head(b) THEN IsSubSeq(Tail(a), Tail(b))
    ELSE IsSubSeq(a, Tail(b))

\* the step adds one record at the end of the journal and leaves the
\* earlier ones alone
AppendsOne ==
    /\ Len(journal') = Len(journal) + 1
    /\ SubSeq(journal', 1, Len(journal)) = journal

\* C21 (appending and removing alone): every step other than a cleanup
\* leaves the journal as it is or adds one record at its end
C21_OnlyCleanupRemoves ==
    [][last'.op # "cleanup" => (journal' = journal \/ AppendsOne)]_vars

\* C21: the journal is an append-only ordered log: a step leaves it as it
\* is, adds one record at its end, or is a cleanup that leaves some records
\* out and keeps the others in their order, so that the order of the
\* records is always the order of creation
C21_AppendOnlyOrdered ==
    [][\/ journal' = journal
       \/ AppendsOne
       \/ last'.op = "cleanup" /\ IsSubSeq(journal', journal)]_vars

\* the latest call is a create_*_link or add_grant_to_link
IsCreateLink == last.op = "create_link"

\* the row the latest create call was given
NewRow == last.stmts[1].row

\* C22: a create call for a row that is already stored raises ValueError,
\* issues no INSERT and leaves every table as it was; a create call that
\* returns has stored the row, so the same call made twice stores it once
\* and fails the second time
C22_DuplicateLinkRejected ==
    IsCreateLink =>
        /\ NewRow \in last.pre[last.etype] =>
              /\ last.raised = "ValueError"
              /\ Issued = <<>>
              /\ db = last.pre
        /\ Returned =>
              /\ NewRow \notin last.pre[last.etype]
              /\ db = [last.pre EXCEPT ![last.etype] = @ \cup {NewRow}]

\* C22 witness: a grant row that was not in the shipped database is
\* submitted again after add_grant_to_link stored it
C22_Witness ==
    /\ IsCreateLink /\ last.etype = "measure_area_priority_grant"
    /\ last.raised = "ValueError"
    /\ NewRow \in last.pre[last.etype] \ InitialDb[last.etype]

\* C22, the other relations: the create call of each is refused for a row
\* that is stored
C22_WitnessEveryRelation ==
    /\ IsCreateLink /\ last.raised = "ValueError"
    /\ NewRow \in last.pre[last.etype]
    /\ last.etype = "habitat_management_area"

\* the latest call is delete_measure_area_priority_link
IsDeleteLink == last.op = "delete_link"

\* the id tuple the latest link delete was given
LinkKey == last.stmts[Len(last.stmts)].row

C23_WitnessSuccess ==
    /\ IsDeleteLink /\ Returned
    /\ Matching(last.pre, last.stmts[1]) # {}

C23_WitnessSimple ==
    /\ last.op = "delete_simple_link" /\ Returned /\ db # last.pre

\* the latest call is bulk_create_measure_area_priority_links
IsBulk == last.op = "bulk_create"

\* the elements of a sequence
Range(q) == {q[k] : k \in 1..Len(q)}

C26_WitnessRepeatedId ==
    /\ IsBulk /\ ~Returned /\ last.failed = 2
    /\ Len(last.stmts) = 2 /\ last.stmts[1] = last.stmts[2]

\* the rows of the child table of a foreign key that match no row of its
\* parent table
Orphans(d, fk) ==
    {c \in d[fk.child] :
        ~\E q \in d[fk.parent] : \A k \in fk.cols : q[k] = c[k]}

C27_WitnessCreate ==
    /\ IsCreateLink /\ Returned /\ last.pre # InitialDb

C27_WitnessRefused ==
    /\ IsCreateLink /\ last.raised = "duckdb.Error" /\ last.failed = 1
    /\ db = last.pre

\* the latest call is update_with_relationships
IsUpdate == last.op = "update"

\* the relations update_with_relationships replaces, each with the column
\* of the other id
SimpleRelations ==
    [measure_has_type |-> "measure_type_id",
     measure_has_stakeholder |-> "stakeholder_id",
     measure_has_benefits |-> "benefit_id"]

\* C24: when update_with_relationships returns, a relation given the empty
\* list has no row for the measure and a relation given None has the rows
\* for the measure it had before
C24_NoneLeavesRelationUntouched ==
    (IsUpdate /\ Returned) =>
        \A t \in DOMAIN SimpleRelations :
            /\ last.args[t] = Given(<<>>) =>
                  RowsOf(db, t, "measure", last.id) = {}
            /\ ~last.args[t].given =>
                  RowsOf(db, t, "measure", last.id)
                      = RowsOf(last.pre, t, "measure", last.id)

\* C24 (the empty list alone): a relation given the empty list has no row
\* for the measure afterwards
C24_EmptyListClears ==
    (IsUpdate /\ Returned) =>
        \A t \in DOMAIN SimpleRelations :
            last.args[t] = Given(<<>>) =>
                RowsOf(db, t, "measure", last.id) = {}

\* C25: when update_with_relationships returns, a relation given a list S
\* holds for the measure one row per element of S and no other, |S| rows in
\* all, and the rows of the other measures are as before
C25_ReplaceLeavesExactlyS ==
    (IsUpdate /\ Returned) =>
        \A t \in DOMAIN SimpleRelations :
            /\ last.args[t].given =>
                  /\ RowsOf(db, t, "measure", last.id)
                        = {(SimpleRelations[t] :> x) @@ [measure_id |-> last.id] :
                              x \in Range(last.args[t].ids)}
                  /\ Cardinality(RowsOf(db, t, "measure", last.id))
                        = Len(last.args[t].ids)
            /\ db[t] \ RowsOf(db, t, "measure", last.id)
                  = last.pre[t] \ RowsOf(last.pre, t, "measure", last.id)

\* C25 witness: a measure that had a row in a relation is given two ids for
\* it, one of them the id it had
C25_Witness ==
    /\ IsUpdate /\ Returned
    /\ \E t \in DOMAIN SimpleRelations :
          /\ Len(last.args[t].ids) = 2
          /\ RowsOf(last.pre, t, "measure", last.id) # {}
          /\ RowsOf(last.pre, t, "measure", last.id)
                # RowsOf(db, t, "measure", last.id)

\* C25, the empty list on a relation that had rows
C25_WitnessEmpty ==
    /\ IsUpdate /\ Returned
    /\ \E t \in DOMAIN SimpleRelations :
          /\ last.args[t] = Given(<<>>)
          /\ RowsOf(last.pre, t, "measure", last.id) # {}

\* C28: whether it returns or raises, delete_with_cascade adds no row and
\* removes only rows that carry the id in the id column of the entity type;
\* called with an id that has no entity row it changes no table
C28_CascadeTouchesOnlyItsRows ==
    IsDelete =>
        /\ \A t \in Tables :
              /\ db[t] \subseteq last.pre[t]
              /\ last.pre[t] \ db[t]
                    \subseteq RowsOf(last.pre, t, last.etype, last.id)
        /\ RowsOf(last.pre, EntityTable(last.etype), last.etype, last.id) = {}
              => db = last.pre

\* C28 witness: a measure was deleted with its link while the link of the
\* other measure to the same area and priority stayed
C28_Witness ==
    /\ IsDelete /\ Returned /\ last.etype = "measure"
    /\ RowsOf(last.pre, "measure_area_priority", "measure", last.id) # {}
    /\ db["measure_area_priority"] # {}

\* C28, the id without an entity row
C28_WitnessMissingId ==
    /\ IsDelete /\ Returned
    /\ RowsOf(last.pre, EntityTable(last.etype), last.etype, last.id) = {}
    /\ last.pre # InitialDb

\* the latest call repeated a sequential delete_with_cascade
IsRerun == last.op = "delete_again"

\* C29: a sequential cascade that is run again for the same id, after it
\* completed or stopped at a failed step, returns, and the store is then
\* what one uninterrupted run on the store the first call found leaves: no
\* row carries the id, and the steps done before match no row
C29_RerunCompletesTheCascade ==
    IsRerun =>
        /\ Returned
        /\ db = DeleteWithCascade(last.etype, last.first, eagerFK, last.id,
                                  0).db
        /\ \A t \in Tables : RowsOf(db, t, last.etype, last.id) = {}
        /\ \A k \in 1..(last.stopped - 1) :
              Matching(last.pre, last.stmts[k]) = {}

\* C29 witness: the first run stopped after it had deleted rows and before
\* rows it had still to delete, and the second run deleted those
C29_Witness ==
    /\ IsRerun /\ Returned /\ last.stopped > 1
    /\ last.pre # last.first
    /\ db # last.pre

\* C29, the run repeated after it completed
C29_WitnessCompleted ==
    /\ IsRerun /\ Returned /\ last.stopped = 0
    /\ last.pre # last.first /\ db = last.pre

\* the latest call was execute_transaction
IsTransact == last.op = "execute_transaction"

\* C30: when execute_transaction has returned or raised, no transaction is
\* open on the shared connection, and the call did not start inside a
\* transaction an earlier call left
C30_NoTransactionLeftOpen ==
    IsTransact => ~last.open /\ ~last.within

\* C30 for store errors only: a call that returned or raised duckdb.Error
\* on a connection without a leftover transaction leaves none
C30_StoreErrorClosesTransaction ==
    IsTransact /\ ~last.within /\ last.raised # "other" => ~last.open

====
